---- MODULE Spec2Model ----
(***************************************************************************)
(* The frontend protocol engine of messages.go: the startup handshake, the *)
(* SSL negotiation and the family of response readers, each a message loop *)
(* over the tagged, length-prefixed messages a server sends.               *)
(*                                                                         *)
(* A message is a tag and a list of wire fields; every read primitive is   *)
(* accounted in bytes, so "how far the reader consumed" is part of the     *)
(* state. The server's messages are drawn one at a time as the running     *)
(* reader asks for them, together with the outcome of the transport and of *)
(* the collaborators (model, scanner, SASL negotiator) for that message.   *)
(***************************************************************************)
EXTENDS Integers, Sequences, FiniteSets, TLC

\* ------------------------------------------------------------------ bounds
\* messages read on one connection
MaxMsgs == 5
\* calls made one after the other on the same connection
MaxCalls == 2
\* calls made on one write buffer
MaxWrites == 3
\* calls that read a RowDescription into column storage
MaxDescribes == 3

\* --------------------------------------------------------- message tags
commandCompleteMsg == "C"
errorResponseMsg == "E"
noticeResponseMsg == "N"
parameterStatusMsg == "S"
authenticationOKMsg == "R"
backendKeyDataMsg == "K"
noDataMsg == "n"
passwordMessageMsg == "p"
saslInitialResponseMsg == "p"
authenticationSASLContinueMsg == "R"
saslResponseMsg == "p"
authenticationSASLFinalMsg == "R"
notificationResponseMsg == "A"
parameterDescriptionMsg == "t"
readyForQueryMsg == "Z"
rowDescriptionMsg == "T"
dataRowMsg == "D"
parseCompleteMsg == "1"
bindCompleteMsg == "2"
closeCompleteMsg == "3"
copyInResponseMsg == "G"
copyOutResponseMsg == "H"
copyDataMsg == "d"
copyDoneMsg == "c"

authenticationOK == 0
authenticationCleartextPassword == 3
authenticationMD5Password == 5
authenticationSASL == 10
\* the sub-codes authenticate and readAuthSASLFinal compare against
saslContinueCode == 11
saslFinalCode == 12

\* sasl.ScramSha256.Name and sasl.ScramSha256Plus.Name
ScramSha256Name == "SCRAM-SHA-256"
ScramSha256PlusName == "SCRAM-SHA-256-PLUS"

\* ------------------------------------------------------------ wire fields
\* A field is [k, h, n, s]: kind, number and text. The number of an i16 is
\* its unsigned wire value; of an i32, h and n are the high and low 16 bits
\* of the wire value; of raw bytes, n is their count.
U16 == 65536

I32(v) == [k |-> "i32", h |-> (v \div U16) % U16, n |-> v % U16, s |-> ""]
I16(v) == [k |-> "i16", h |-> 0, n |-> v % U16, s |-> ""]
Byte(c) == [k |-> "byte", h |-> 0, n |-> 1, s |-> c]
Nul == [k |-> "byte", h |-> 0, n |-> 0, s |-> ""]
CStr(s) == [k |-> "cstr", h |-> 0, n |-> 0, s |-> s]
Raw(n, s) == [k |-> "raw", h |-> 0, n |-> n, s |-> s]

FieldSize(f) ==
  CASE f.k = "i32" -> 4
    [] f.k = "i16" -> 2
    [] f.k = "byte" -> 1
    [] f.k = "cstr" -> Len(f.s) + 1
    [] OTHER -> f.n

RECURSIVE SizeFrom(_, _)
SizeFrom(fs, i) == IF i > Len(fs) THEN 0 ELSE FieldSize(fs[i]) + SizeFrom(fs, i + 1)

\* the payload length the message's header announces (length - 4)
PayloadLen(m) == SizeFrom(m.fields, 1)

\* tag byte + 32-bit length
HeaderSize == 5
MsgSize(m) == HeaderSize + PayloadLen(m)

\* int16(binary.BigEndian.Uint16(b)) and int32(binary.BigEndian.Uint32(b))
ToInt16(u) == IF u >= U16 \div 2 THEN u - U16 ELSE u
ToInt32(f) == ToInt16(f.h) * U16 + f.n

Msg(tag, fields) == [tag |-> tag, fields |-> fields]

\* ----------------------------------------------------------------- errors
NoErr == [kind |-> "nil", fmt |-> "", arg |-> "", fields |-> {}]
IoError == [kind |-> "IoError", fmt |-> "", arg |-> "", fields |-> {}]
Errorf(fmt, arg) == [kind |-> "Errorf", fmt |-> fmt, arg |-> arg, fields |-> {}]
\* internal.NewPGError(m)
NewPGError(fields) == [kind |-> "ServerError", fmt |-> "", arg |-> "", fields |-> fields]
\* errors of the collaborators
ModelError == [kind |-> "ModelError", fmt |-> "", arg |-> "", fields |-> {}]
AddError == [kind |-> "AddError", fmt |-> "", arg |-> "", fields |-> {}]
ScanError(i) == [kind |-> "ScanError", fmt |-> "", arg |-> ToString(i), fields |-> {}]
WriteError == [kind |-> "WriteError", fmt |-> "", arg |-> "", fields |-> {}]
SaslError == [kind |-> "SaslError", fmt |-> "", arg |-> "", fields |-> {}]
errSSLNotSupported == [kind |-> "SSLNotSupported", fmt |-> "", arg |-> "", fields |-> {}]

\* cn.RemoteAddr().String()
RemoteAddr == "addr"

\* types.NewResult(b, rows); NilResult is a nil *types.Result
NilResult == [nil |-> TRUE, b |-> "", rows |-> 0]
NewResult(b, rows) == [nil |-> FALSE, b |-> b, rows |-> rows]

\* ------------------------------------------------------- read primitives
\* readError: fields are read as (code byte, string) pairs up to the 0 byte;
\* a later field with the same code overwrites the earlier one.
RECURSIVE readErrorFrom(_, _, _, _)
readErrorFrom(fs, i, acc, used) ==
  IF i > Len(fs) THEN [err |-> IoError, e |-> NoErr, used |-> used]
  ELSE IF fs[i].n = 0 THEN [err |-> NoErr, e |-> NewPGError(acc), used |-> used + 1]
  ELSE IF i + 1 > Len(fs) THEN [err |-> IoError, e |-> NoErr, used |-> used + 1]
  ELSE readErrorFrom(fs, i + 2,
         {p \in acc : p[1] # fs[i].s} \cup {<<fs[i].s, fs[i + 1].s>>},
         used + 1 + FieldSize(fs[i + 1]))

readError(m, e) ==
  IF e.io = "body" THEN [err |-> IoError, e |-> NoErr, used |-> 0]
  ELSE readErrorFrom(m.fields, 1, {<<"a", RemoteAddr>>}, 0)

\* ------------------------------------------------- locals of a running call
\* The return value of a call: st is "running" until the function returns,
\* "panic" when it ends in a run-time panic.
Running ==
  [st |-> "running", res |-> NilResult, err |-> NoErr, columns |-> <<>>,
   model |-> "nil", channel |-> "", payload |-> ""]

\* the locals of the reader functions (pc: the place inside startup and
\* authenticate that reads the next message)
Frame0 ==
  [pc |-> "loop", rows |-> 0, res |-> NilResult, retErr |-> NoErr,
   columns |-> <<>>, model |-> "nil", sent |-> <<>>, ret |-> Running]

\* A step of a reader maps s = [cn, fr, used, row] and the next message to
\* the same record; used is the number of bytes the step took from the
\* stream, row what readDataRow did in it (NoRow: it was not called).
NoRow == [st |-> "", err |-> NoErr, used |-> 0, scans |-> <<>>]

Go(s, used) == [s EXCEPT !.used = used]

Return(s, used, ret) == [s EXCEPT !.used = used, !.fr.ret = ret]

\* return <zero values>, err
ReturnErr(s, used, err) ==
  Return(s, used, [Running EXCEPT !.st = "returned", !.err = err])

\* return res, err
ReturnRes(s, used, res, err) ==
  Return(s, used, [Running EXCEPT !.st = "returned", !.res = res, !.err = err])

Panic(s, used) == Return(s, used, [Running EXCEPT !.st = "panic"])

\* cn.ReadN(n) fails when the transport fails inside the payload
ReadNFails(n, e) == e.io = "body" /\ n > 0

\* the bytes ReadN(msgLen) returns, as text
PayloadText(m) == IF Len(m.fields) > 0 THEN m.fields[1].s ELSE ""

\* _, err := cn.ReadN(msgLen); if err != nil { return ..., err }
Skip(s, m, e) ==
  IF ReadNFails(PayloadLen(m), e) THEN ReturnErr(s, HeaderSize, IoError)
  ELSE Go(s, MsgSize(m))

logNotice(s, m, e) == Skip(s, m, e)

logParameterStatus(s, m, e) == Skip(s, m, e)

\* setErr without its test: the last error is kept
setErrLast(s, err) == [s EXCEPT !.fr.retErr = err]

\* the setErr closure of the query readers: the first error is kept
setErr(s, err) ==
  IF s.fr.retErr = NoErr THEN [s EXCEPT !.fr.retErr = err] ELSE s

\* case errorResponseMsg of the readers that return the error at once
ErrorReturn(s, m, e) ==
  LET r == readError(m, e)
  IN  IF r.err # NoErr THEN ReturnErr(s, HeaderSize + r.used, r.err)
      ELSE ReturnErr(s, HeaderSize + r.used, r.e)

\* case errorResponseMsg of the readers that record it with setErr
ErrorSet(s, m, e) ==
  LET r == readError(m, e)
  IN  IF r.err # NoErr THEN ReturnErr(s, HeaderSize + r.used, r.err)
      ELSE Go(setErr(s, r.e), HeaderSize + r.used)

\* CommandComplete with the rows left out of the Result
CommandCompleteNoRows(s, m, e, rows) ==
  IF ReadNFails(PayloadLen(m), e) THEN ReturnErr(s, HeaderSize, IoError)
  ELSE Go([s EXCEPT !.fr.res = NewResult(PayloadText(m), 0)], MsgSize(m))

\* case commandCompleteMsg: res = types.NewResult(b, rows)
CommandComplete(s, m, e, rows) ==
  IF ReadNFails(PayloadLen(m), e) THEN ReturnErr(s, HeaderSize, IoError)
  ELSE Go([s EXCEPT !.fr.res = NewResult(PayloadText(m), rows)], MsgSize(m))

\* ------------------------------------------------------ response readers
\* readBindMsg returning on BindComplete instead of waiting for ReadyForQuery
readBindMsgEarly(s, m, e) ==
  IF e.io = "hdr" THEN ReturnErr(s, 0, IoError)
  ELSE CASE m.tag = bindCompleteMsg ->
              IF ReadNFails(PayloadLen(m), e) THEN ReturnErr(s, HeaderSize, IoError)
              ELSE ReturnErr(s, MsgSize(m), NoErr)
         [] m.tag = readyForQueryMsg ->
              IF ReadNFails(PayloadLen(m), e) THEN ReturnErr(s, HeaderSize, IoError)
              ELSE ReturnErr(s, MsgSize(m), NoErr)
         [] m.tag = errorResponseMsg -> ErrorReturn(s, m, e)
         [] m.tag = noticeResponseMsg -> logNotice(s, m, e)
         [] m.tag = parameterStatusMsg -> logParameterStatus(s, m, e)
         [] OTHER ->
              ReturnErr(s, HeaderSize,
                        Errorf("pg: readBindMsg: unexpected message %#x", m.tag))

readBindMsg(s, m, e) ==
  IF e.io = "hdr" THEN ReturnErr(s, 0, IoError)
  ELSE CASE m.tag = bindCompleteMsg -> Skip(s, m, e)
         [] m.tag = readyForQueryMsg ->
              IF ReadNFails(PayloadLen(m), e) THEN ReturnErr(s, HeaderSize, IoError)
              ELSE ReturnErr(s, MsgSize(m), NoErr)
         [] m.tag = errorResponseMsg -> ErrorReturn(s, m, e)
         [] m.tag = noticeResponseMsg -> logNotice(s, m, e)
         [] m.tag = parameterStatusMsg -> logParameterStatus(s, m, e)
         [] OTHER ->
              ReturnErr(s, HeaderSize,
                        Errorf("pg: readBindMsg: unexpected message %#x", m.tag))

readCloseCompleteMsg(s, m, e) ==
  IF e.io = "hdr" THEN ReturnErr(s, 0, IoError)
  ELSE CASE m.tag = closeCompleteMsg ->
              IF ReadNFails(PayloadLen(m), e) THEN ReturnErr(s, HeaderSize, IoError)
              ELSE ReturnErr(s, MsgSize(m), NoErr)
         [] m.tag = errorResponseMsg -> ErrorReturn(s, m, e)
         [] m.tag = noticeResponseMsg -> logNotice(s, m, e)
         [] m.tag = parameterStatusMsg -> logParameterStatus(s, m, e)
         [] OTHER ->
              ReturnErr(s, HeaderSize,
                        Errorf("pg: readCloseCompleteMsg: unexpected message %#x", m.tag))

readSimpleQuery(s, m, e) ==
  IF e.io = "hdr" THEN ReturnErr(s, 0, IoError)
  ELSE CASE m.tag = commandCompleteMsg -> CommandComplete(s, m, e, s.fr.rows)
         [] m.tag = readyForQueryMsg ->
              IF ReadNFails(PayloadLen(m), e) THEN ReturnErr(s, HeaderSize, IoError)
              ELSE ReturnRes(s, MsgSize(m), s.fr.res, s.fr.retErr)
         [] m.tag = rowDescriptionMsg -> Skip(s, m, e)
         [] m.tag = dataRowMsg ->
              IF ReadNFails(PayloadLen(m), e) THEN ReturnErr(s, HeaderSize, IoError)
              ELSE Go([s EXCEPT !.fr.rows = @ + 1], MsgSize(m))
         [] m.tag = errorResponseMsg -> ErrorSet(s, m, e)
         [] m.tag = noticeResponseMsg -> logNotice(s, m, e)
         [] m.tag = parameterStatusMsg -> logParameterStatus(s, m, e)
         [] OTHER ->
              ReturnErr(s, HeaderSize,
                        Errorf("pg: readSimpleQuery: unexpected message %#x", m.tag))

readExtQuery(s, m, e) ==
  IF e.io = "hdr" THEN ReturnErr(s, 0, IoError)
  ELSE CASE m.tag = bindCompleteMsg -> Skip(s, m, e)
         [] m.tag = dataRowMsg ->
              IF ReadNFails(PayloadLen(m), e) THEN ReturnErr(s, HeaderSize, IoError)
              ELSE Go([s EXCEPT !.fr.rows = @ + 1], MsgSize(m))
         [] m.tag = commandCompleteMsg -> CommandComplete(s, m, e, s.fr.rows)
         [] m.tag = readyForQueryMsg ->
              IF ReadNFails(PayloadLen(m), e) THEN ReturnErr(s, HeaderSize, IoError)
              ELSE ReturnRes(s, MsgSize(m), s.fr.res, s.fr.retErr)
         [] m.tag = errorResponseMsg -> ErrorSet(s, m, e)
         [] m.tag = noticeResponseMsg -> logNotice(s, m, e)
         [] m.tag = parameterStatusMsg -> logParameterStatus(s, m, e)
         [] OTHER ->
              ReturnErr(s, HeaderSize,
                        Errorf("pg: readExtQuery: unexpected message %#x", m.tag))

\* readCopyInResponse returning success on ParameterStatus as well
readCopyInResponseEarly(s, m, e) ==
  IF e.io = "hdr" THEN ReturnErr(s, 0, IoError)
  ELSE CASE m.tag \in {copyInResponseMsg, parameterStatusMsg} ->
              IF ReadNFails(PayloadLen(m), e) THEN ReturnErr(s, HeaderSize, IoError)
              ELSE ReturnErr(s, MsgSize(m), NoErr)
         [] m.tag = errorResponseMsg -> ErrorReturn(s, m, e)
         [] m.tag = noticeResponseMsg -> logNotice(s, m, e)
         [] OTHER ->
              ReturnErr(s, HeaderSize,
                        Errorf("pg: readCopyInResponse: unexpected message %#x", m.tag))

readCopyInResponse(s, m, e) ==
  IF e.io = "hdr" THEN ReturnErr(s, 0, IoError)
  ELSE CASE m.tag = copyInResponseMsg ->
              IF ReadNFails(PayloadLen(m), e) THEN ReturnErr(s, HeaderSize, IoError)
              ELSE ReturnErr(s, MsgSize(m), NoErr)
         [] m.tag = errorResponseMsg -> ErrorReturn(s, m, e)
         [] m.tag = noticeResponseMsg -> logNotice(s, m, e)
         [] m.tag = parameterStatusMsg -> logParameterStatus(s, m, e)
         [] OTHER ->
              ReturnErr(s, HeaderSize,
                        Errorf("pg: readCopyInResponse: unexpected message %#x", m.tag))

readCopyOutResponse(s, m, e) ==
  IF e.io = "hdr" THEN ReturnErr(s, 0, IoError)
  ELSE CASE m.tag = copyOutResponseMsg ->
              IF ReadNFails(PayloadLen(m), e) THEN ReturnErr(s, HeaderSize, IoError)
              ELSE ReturnErr(s, MsgSize(m), NoErr)
         [] m.tag = errorResponseMsg -> ErrorReturn(s, m, e)
         [] m.tag = noticeResponseMsg -> logNotice(s, m, e)
         [] m.tag = parameterStatusMsg -> logParameterStatus(s, m, e)
         [] OTHER ->
              ReturnErr(s, HeaderSize,
                        Errorf("pg: readCopyOutResponse: unexpected message %#x", m.tag))

readCopyData(s, m, e) ==
  IF e.io = "hdr" THEN ReturnErr(s, 0, IoError)
  ELSE CASE m.tag = copyDataMsg ->
              IF ReadNFails(PayloadLen(m), e) THEN ReturnErr(s, HeaderSize, IoError)
              ELSE IF e.writeErr THEN ReturnErr(s, MsgSize(m), WriteError)
              ELSE Go(s, MsgSize(m))
         [] m.tag = copyDoneMsg -> Skip(s, m, e)
         [] m.tag = commandCompleteMsg -> CommandComplete(s, m, e, 0)
         [] m.tag = readyForQueryMsg ->
              IF ReadNFails(PayloadLen(m), e) THEN ReturnRes(s, HeaderSize, s.fr.res, IoError)
              ELSE ReturnRes(s, MsgSize(m), s.fr.res, NoErr)
         [] m.tag = errorResponseMsg -> ErrorReturn(s, m, e)
         [] m.tag = noticeResponseMsg -> logNotice(s, m, e)
         [] m.tag = parameterStatusMsg -> logParameterStatus(s, m, e)
         [] OTHER ->
              ReturnErr(s, HeaderSize,
                        Errorf("pg: readCopyData: unexpected message %#x", m.tag))

readReadyForQuery(s, m, e) ==
  IF e.io = "hdr" THEN ReturnErr(s, 0, IoError)
  ELSE CASE m.tag = commandCompleteMsg -> CommandComplete(s, m, e, 0)
         [] m.tag = readyForQueryMsg ->
              IF ReadNFails(PayloadLen(m), e) THEN ReturnErr(s, HeaderSize, IoError)
              ELSE ReturnRes(s, MsgSize(m), s.fr.res, s.fr.retErr)
         [] m.tag = errorResponseMsg ->
              LET r == readError(m, e)
              IN  IF r.err # NoErr THEN ReturnErr(s, HeaderSize + r.used, r.err)
                  ELSE Go([s EXCEPT !.fr.retErr = r.e], HeaderSize + r.used)
         [] m.tag = noticeResponseMsg -> logNotice(s, m, e)
         [] m.tag = parameterStatusMsg -> logParameterStatus(s, m, e)
         [] OTHER ->
              ReturnErr(s, HeaderSize,
                        Errorf("pg: readReadyForQueryOrError: unexpected message %#x", m.tag))

\* readInt32, readString, readString of a NotificationResponse
\* readNotification ending its wait at ReadyForQuery
readNotificationToIdle(s, m, e) ==
  IF e.io = "hdr" THEN ReturnErr(s, 0, IoError)
  ELSE CASE m.tag = commandCompleteMsg -> Skip(s, m, e)
         [] m.tag = readyForQueryMsg ->
              IF ReadNFails(PayloadLen(m), e) THEN ReturnErr(s, HeaderSize, IoError)
              ELSE Return(s, MsgSize(m), [Running EXCEPT !.st = "returned"])
         [] m.tag = errorResponseMsg -> ErrorReturn(s, m, e)
         [] m.tag = noticeResponseMsg -> logNotice(s, m, e)
         [] m.tag = notificationResponseMsg ->
              IF e.io = "body" \/ Len(m.fields) < 3 THEN ReturnErr(s, HeaderSize, IoError)
              ELSE Return(s, HeaderSize + 4 + FieldSize(m.fields[2]) + FieldSize(m.fields[3]),
                          [Running EXCEPT !.st = "returned", !.channel = m.fields[2].s,
                                          !.payload = m.fields[3].s])
         [] OTHER -> ReturnErr(s, HeaderSize, Errorf("pg: unexpected message %q", m.tag))

readNotification(s, m, e) ==
  IF e.io = "hdr" THEN ReturnErr(s, 0, IoError)
  ELSE CASE m.tag = commandCompleteMsg -> Skip(s, m, e)
         [] m.tag = readyForQueryMsg -> Skip(s, m, e)
         [] m.tag = errorResponseMsg -> ErrorReturn(s, m, e)
         [] m.tag = noticeResponseMsg -> logNotice(s, m, e)
         [] m.tag = notificationResponseMsg ->
              IF e.io = "body" \/ Len(m.fields) < 3 THEN ReturnErr(s, HeaderSize, IoError)
              ELSE Return(s, HeaderSize + 4 + FieldSize(m.fields[2]) + FieldSize(m.fields[3]),
                          [Running EXCEPT !.st = "returned", !.channel = m.fields[2].s,
                                          !.payload = m.fields[3].s])
         [] OTHER -> ReturnErr(s, HeaderSize, Errorf("pg: unexpected message %q", m.tag))

\* ------------------------------------------------------------ row readers
\* the 18 bytes of field metadata read after every column name
RowMetaSize == 18

RECURSIVE NamesSize(_, _, _)
NamesSize(fs, i, colNum) ==
  IF i > colNum THEN 0
  ELSE FieldSize(fs[2 * i]) + RowMetaSize + NamesSize(fs, i + 1, colNum)

\* readRowDescription keeping the metadata in place of the names
readRowDescriptionMeta(m, e) ==
  IF e.io = "body" THEN [err |-> IoError, columns |-> <<>>, used |-> 0]
  ELSE LET colNum == ToInt16(m.fields[1].n)
       IN  [err |-> NoErr,
            columns |-> [i \in 1..colNum |-> m.fields[2 * i + 1].s],
            used |-> 2 + NamesSize(m.fields, 1, colNum)]

\* readRowDescription: the column names of a RowDescription payload
readRowDescription(m, e) ==
  IF e.io = "body" THEN [err |-> IoError, columns |-> <<>>, used |-> 0]
  ELSE LET colNum == ToInt16(m.fields[1].n)
       IN  [err |-> NoErr,
            columns |-> [i \in 1..colNum |-> m.fields[2 * i].s],
            used |-> 2 + NamesSize(m.fields, 1, colNum)]

\* Discard.ScanColumn and Discard.AddModel never fail; a model's may
ScanErrs(model, e) == IF model = "Discard" THEN {} ELSE e.scanErr

AddErr(model, e) == model # "Discard" /\ e.addErr

\* the loop of readDataRow keeping the error of the last failing column
RECURSIVE readDataRowFromLast(_, _, _, _, _, _, _, _)
readDataRowFromLast(fs, pos, colIdx, colNum, columns, scanErr, retErr, used) ==
  IF colIdx >= colNum
  THEN [st |-> "returned", err |-> retErr, used |-> used, scans |-> <<>>]
  ELSE LET l == ToInt32(fs[pos])
           n == IF l # -1 THEN l ELSE 0
           next == IF l # -1 THEN pos + 2 ELSE pos + 1
       IN  IF colIdx >= Len(columns)
           THEN [st |-> "panic", err |-> retErr, used |-> used + 4 + n, scans |-> <<>>]
           ELSE LET r == readDataRowFromLast(fs, next, colIdx + 1, colNum, columns,
                           scanErr,
                           IF colIdx \in scanErr THEN ScanError(colIdx) ELSE retErr,
                           used + 4 + n)
                IN  [r EXCEPT !.scans =
                       <<[colIdx |-> colIdx, column |-> columns[colIdx + 1],
                          null |-> l = -1, n |-> n]>> \o @]

\* the loop of readDataRow from field position pos, column colIdx; scans
\* are the calls scanner.ScanColumn(colIdx, column, b) it makes, b being nil
\* (null) or n bytes
RECURSIVE readDataRowFrom(_, _, _, _, _, _, _, _)
readDataRowFrom(fs, pos, colIdx, colNum, columns, scanErr, retErr, used) ==
  IF colIdx >= colNum
  THEN [st |-> "returned", err |-> retErr, used |-> used, scans |-> <<>>]
  ELSE LET l == ToInt32(fs[pos])
           n == IF l # -1 THEN l ELSE 0
           next == IF l # -1 THEN pos + 2 ELSE pos + 1
       IN  IF colIdx >= Len(columns)
           THEN [st |-> "panic", err |-> retErr, used |-> used + 4 + n, scans |-> <<>>]
           ELSE LET r == readDataRowFrom(fs, next, colIdx + 1, colNum, columns, scanErr,
                           IF colIdx \in scanErr /\ retErr = NoErr
                           THEN ScanError(colIdx) ELSE retErr,
                           used + 4 + n)
                IN  [r EXCEPT !.scans =
                       <<[colIdx |-> colIdx, column |-> columns[colIdx + 1],
                          null |-> l = -1, n |-> n]>> \o @]

readDataRow(m, e, scanErr, columns) ==
  IF e.io = "body"
  THEN [st |-> "returned", err |-> IoError, used |-> 0, scans |-> <<>>]
  ELSE readDataRowFrom(m.fields, 2, 0, ToInt16(m.fields[1].n), columns, scanErr, NoErr, 2)

\* newModel without the replacement of the model by Discard
newModelKeepsNil(s, e) ==
  IF e.newModelErr THEN setErr(s, ModelError)
  ELSE [s EXCEPT !.fr.model = "model"]

\* model, err = newModel(mod); if err != nil { setErr(err); model = Discard }
newModel(s, e) ==
  IF e.newModelErr THEN [setErr(s, ModelError) EXCEPT !.fr.model = "Discard"]
  ELSE [s EXCEPT !.fr.model = "model"]

\* case dataRowMsg of the readers with a model, the model being non-nil
DataRow(s, m, e, columns) ==
  LET r == readDataRow(m, e, ScanErrs(s.fr.model, e), columns)
      t == IF r.err # NoErr THEN setErr(s, r.err)
           ELSE IF AddErr(s.fr.model, e) THEN setErr(s, AddError)
           ELSE s
  IN  IF r.st = "panic" THEN Panic([s EXCEPT !.row = r], HeaderSize + r.used)
      ELSE Go([t EXCEPT !.fr.rows = @ + 1, !.row = r], HeaderSize + r.used)

readSimpleQueryData(s, m, e) ==
  IF e.io = "hdr" THEN ReturnErr(s, 0, IoError)
  ELSE CASE m.tag = rowDescriptionMsg ->
              LET r == readRowDescription(m, e)
                  t == [s EXCEPT !.cn.Columns = r.columns]
              IN  IF r.err # NoErr THEN ReturnErr(t, HeaderSize + r.used, r.err)
                  ELSE IF s.fr.model = "nil" THEN Go(newModel(t, e), HeaderSize + r.used)
                  ELSE Go(t, HeaderSize + r.used)
         [] m.tag = dataRowMsg ->
              IF s.fr.model = "nil" THEN Panic(s, HeaderSize)
              ELSE DataRow(s, m, e, s.cn.Columns)
         [] m.tag = commandCompleteMsg -> CommandComplete(s, m, e, s.fr.rows)
         [] m.tag = readyForQueryMsg ->
              IF ReadNFails(PayloadLen(m), e) THEN ReturnErr(s, HeaderSize, IoError)
              ELSE Return(s, MsgSize(m),
                          [Running EXCEPT !.st = "returned", !.res = s.fr.res,
                                          !.model = s.fr.model, !.err = s.fr.retErr])
         [] m.tag = errorResponseMsg -> ErrorSet(s, m, e)
         [] m.tag = noticeResponseMsg -> logNotice(s, m, e)
         [] m.tag = parameterStatusMsg -> logParameterStatus(s, m, e)
         [] OTHER ->
              ReturnErr(s, HeaderSize,
                        Errorf("pg: readSimpleQueryData: unexpected message %#x", m.tag))

readExtQueryData(s, m, e) ==
  IF e.io = "hdr" THEN ReturnErr(s, 0, IoError)
  ELSE CASE m.tag = bindCompleteMsg -> Skip(s, m, e)
         [] m.tag = dataRowMsg ->
              DataRow(IF s.fr.model = "nil" THEN newModel(s, e) ELSE s, m, e, s.fr.columns)
         [] m.tag = commandCompleteMsg -> CommandComplete(s, m, e, s.fr.rows)
         [] m.tag = readyForQueryMsg ->
              IF ReadNFails(PayloadLen(m), e) THEN ReturnErr(s, HeaderSize, IoError)
              ELSE Return(s, MsgSize(m),
                          [Running EXCEPT !.st = "returned", !.res = s.fr.res,
                                          !.model = s.fr.model, !.err = s.fr.retErr])
         [] m.tag = errorResponseMsg -> ErrorSet(s, m, e)
         [] m.tag = noticeResponseMsg -> logNotice(s, m, e)
         [] m.tag = parameterStatusMsg -> logParameterStatus(s, m, e)
         [] OTHER ->
              ReturnErr(s, HeaderSize,
                        Errorf("pg: readExtQueryData: unexpected message %#x", m.tag))

readParseDescribeSync(s, m, e) ==
  IF e.io = "hdr" THEN ReturnErr(s, 0, IoError)
  ELSE CASE m.tag = parseCompleteMsg -> Skip(s, m, e)
         [] m.tag = rowDescriptionMsg ->
              LET r == readRowDescription(m, e)
              IN  IF r.err # NoErr THEN ReturnErr(s, HeaderSize + r.used, r.err)
                  ELSE Go([s EXCEPT !.fr.columns = r.columns], HeaderSize + r.used)
         [] m.tag = parameterDescriptionMsg -> Skip(s, m, e)
         [] m.tag = noDataMsg -> Skip(s, m, e)
         [] m.tag = readyForQueryMsg ->
              Return(s, IF ReadNFails(PayloadLen(m), e) THEN HeaderSize ELSE MsgSize(m),
                     [Running EXCEPT !.st = "returned", !.columns = s.fr.columns,
                        !.err = IF ReadNFails(PayloadLen(m), e) THEN IoError ELSE NoErr])
         [] m.tag = errorResponseMsg -> ErrorReturn(s, m, e)
         [] m.tag = noticeResponseMsg -> logNotice(s, m, e)
         [] m.tag = parameterStatusMsg -> logParameterStatus(s, m, e)
         [] OTHER ->
              ReturnErr(s, HeaderSize,
                        Errorf("pg: readParseDescribeSync: unexpected message %#x", m.tag))

\* ------------------------------------------------------------- handshake
\* a message written to cn.Wr and flushed
Send(s, tag, body) == [s EXCEPT !.fr.sent = Append(@, [tag |-> tag, body |-> body])]

\* the loop over the mechanism names of an AuthenticationSASL payload, from
\* field i: the mechanism selected, or the error of an unknown name
RECURSIVE readMechanisms(_, _, _, _)
readMechanisms(fs, i, saslMech, used) ==
  IF i > Len(fs) THEN [err |-> IoError, saslMech |-> saslMech, used |-> used]
  ELSE LET str == fs[i].s
           n == used + FieldSize(fs[i])
       IN  CASE str = "" -> [err |-> NoErr, saslMech |-> saslMech, used |-> n]
             [] str = ScramSha256Name -> readMechanisms(fs, i + 1, ScramSha256Name, n)
             [] str = ScramSha256PlusName -> readMechanisms(fs, i + 1, saslMech, n)
             [] OTHER -> [err |-> Errorf("got %q, wanted %q", str),
                          saslMech |-> saslMech, used |-> n]

\* writePasswordMsg, FlushWriter, then wait for the reply
SendPassword(s, e, body, used) ==
  IF e.flushErr THEN ReturnErr(s, used, IoError)
  ELSE Go([Send(s, passwordMessageMsg, body) EXCEPT !.fr.pc = "password"], used)

\* case authenticationSASL up to the first read after SASLInitialResponse.
\* client.Step(nil) on the zero Mechanism (no mechanism selected) calls a
\* nil Start function.
authenticateSASL(s, m, e) ==
  LET r == readMechanisms(m.fields, 2, "", HeaderSize + 4)
  IN  IF r.err # NoErr THEN ReturnErr(s, r.used, r.err)
      ELSE IF e.stepErr THEN ReturnErr(s, r.used, SaslError)
      ELSE IF r.saslMech = "" THEN Panic(s, r.used)
      ELSE IF e.flushErr THEN ReturnErr(s, r.used, IoError)
      ELSE Go([Send(s, saslInitialResponseMsg, r.saslMech)
                 EXCEPT !.fr.pc = "saslContinue"], r.used)

\* authenticate, from its first read to the point where it returns or
\* waits for the server's reply
authenticate(s, m, e) ==
  IF e.io = "body" THEN ReturnErr(s, HeaderSize, IoError)
  ELSE LET num == ToInt32(m.fields[1])
       IN  CASE num = authenticationOK -> Go(s, HeaderSize + 4)
             [] num = authenticationCleartextPassword ->
                  SendPassword(s, e, "password", HeaderSize + 4)
             [] num = authenticationMD5Password ->
                  SendPassword(s, e, "md5", HeaderSize + 4 + 4)
             [] num = authenticationSASL -> authenticateSASL(s, m, e)
             [] OTHER ->
                  ReturnErr(s, HeaderSize + 4,
                    Errorf("pg: unknown authentication message response: %d", ToString(num)))

\* case authenticationOKMsg of the switches that wait for AuthenticationOk
AuthOK(s, m, e, fmt) ==
  IF e.io = "body" THEN ReturnErr(s, HeaderSize, IoError)
  ELSE IF ToInt32(m.fields[1]) # 0
  THEN ReturnErr(s, HeaderSize + 4, Errorf(fmt, ToString(ToInt32(m.fields[1]))))
  ELSE Go([s EXCEPT !.fr.pc = "loop"], HeaderSize + 4)

\* the reply to the PasswordMessage with its sub-code left unchecked
authenticatePasswordAnyCode(s, m, e) ==
  IF e.io = "hdr" THEN ReturnErr(s, 0, IoError)
  ELSE CASE m.tag = authenticationOKMsg ->
              IF e.io = "body" THEN ReturnErr(s, HeaderSize, IoError)
              ELSE Go([s EXCEPT !.fr.pc = "loop"], HeaderSize + 4)
         [] m.tag = errorResponseMsg -> ErrorReturn(s, m, e)
         [] OTHER ->
              ReturnErr(s, HeaderSize,
                        Errorf("pg: unknown password message response: %q", m.tag))

\* authenticate after the PasswordMessage is flushed (cleartext and MD5)
authenticatePassword(s, m, e) ==
  IF e.io = "hdr" THEN ReturnErr(s, 0, IoError)
  ELSE CASE m.tag = authenticationOKMsg ->
              AuthOK(s, m, e, "pg: unexpected authentication code: %d")
         [] m.tag = errorResponseMsg -> ErrorReturn(s, m, e)
         [] OTHER ->
              ReturnErr(s, HeaderSize,
                        Errorf("pg: unknown password message response: %q", m.tag))

readAuthOK(s, m, e) ==
  IF e.io = "hdr" THEN ReturnErr(s, 0, IoError)
  ELSE CASE m.tag = authenticationOKMsg ->
              AuthOK(s, m, e, "pg: unexpected authentication code: %q")
         [] m.tag = errorResponseMsg -> ErrorReturn(s, m, e)
         [] OTHER ->
              ReturnErr(s, HeaderSize,
                        Errorf("pg: unknown password message response: %q", m.tag))

\* authenticate after SASLInitialResponse: the AuthenticationSASLContinue
authenticateSASLContinue(s, m, e) ==
  IF e.io = "hdr" THEN ReturnErr(s, 0, IoError)
  ELSE CASE m.tag = authenticationSASLContinueMsg ->
              IF e.io = "body" THEN ReturnErr(s, HeaderSize, IoError)
              ELSE IF ToInt32(m.fields[1]) # saslContinueCode
              THEN ReturnErr(s, HeaderSize + 4,
                             Errorf("pg: SASL: got %q, wanted %q", m.tag))
              ELSE IF e.stepErr THEN ReturnErr(s, MsgSize(m), SaslError)
              ELSE IF e.flushErr THEN ReturnErr(s, MsgSize(m), IoError)
              ELSE Go([Send(s, saslResponseMsg, "client-final")
                         EXCEPT !.fr.pc = "saslFinal"], MsgSize(m))
         [] m.tag = errorResponseMsg -> ErrorReturn(s, m, e)
         [] OTHER ->
              ReturnErr(s, HeaderSize, Errorf("pg: SASL: got %q, wanted %q", m.tag))

\* readAuthSASLFinal without the test of the negotiator's state
readAuthSASLFinalAnyState(s, m, e) ==
  IF e.io = "hdr" THEN ReturnErr(s, 0, IoError)
  ELSE CASE m.tag = authenticationSASLFinalMsg ->
              IF e.io = "body" THEN ReturnErr(s, HeaderSize, IoError)
              ELSE IF ToInt32(m.fields[1]) # saslFinalCode
              THEN ReturnErr(s, HeaderSize + 4,
                             Errorf("pg: SASL: got %q, wanted %q", m.tag))
              ELSE IF e.stepErr THEN ReturnErr(s, MsgSize(m), SaslError)
              ELSE Go([s EXCEPT !.fr.pc = "authOK"], MsgSize(m))
         [] m.tag = errorResponseMsg -> ErrorReturn(s, m, e)
         [] OTHER ->
              ReturnErr(s, HeaderSize, Errorf("pg: SASL: got %q, wanted %q", m.tag))

readAuthSASLFinal(s, m, e) ==
  IF e.io = "hdr" THEN ReturnErr(s, 0, IoError)
  ELSE CASE m.tag = authenticationSASLFinalMsg ->
              IF e.io = "body" THEN ReturnErr(s, HeaderSize, IoError)
              ELSE IF ToInt32(m.fields[1]) # saslFinalCode
              THEN ReturnErr(s, HeaderSize + 4,
                             Errorf("pg: SASL: got %q, wanted %q", m.tag))
              ELSE IF e.stepErr THEN ReturnErr(s, MsgSize(m), SaslError)
              ELSE IF ~e.saslValid
              THEN ReturnErr(s, MsgSize(m), Errorf("pg: SASL: state=%q, wanted %q", ""))
              ELSE Go([s EXCEPT !.fr.pc = "authOK"], MsgSize(m))
         [] m.tag = errorResponseMsg -> ErrorReturn(s, m, e)
         [] OTHER ->
              ReturnErr(s, HeaderSize, Errorf("pg: SASL: got %q, wanted %q", m.tag))

\* BackendKeyData with the two values stored the wrong way round
BackendKeyDataSwapped(s, m, e) ==
  IF e.io = "body" THEN ReturnErr(s, HeaderSize, IoError)
  ELSE Go([s EXCEPT !.cn.ProcessId = ToInt32(m.fields[2]),
                    !.cn.SecretKey = ToInt32(m.fields[1])], HeaderSize + 4 + 4)

\* case backendKeyDataMsg of startup
BackendKeyData(s, m, e) ==
  IF e.io = "body" THEN ReturnErr(s, HeaderSize, IoError)
  ELSE Go([s EXCEPT !.cn.ProcessId = ToInt32(m.fields[1]),
                    !.cn.SecretKey = ToInt32(m.fields[2])], HeaderSize + 4 + 4)

\* one message of the loop of startup (pc "loop") or of the authenticate
\* call it is inside of
startup(s, m, e) ==
  CASE s.fr.pc = "password" -> authenticatePassword(s, m, e)
    [] s.fr.pc = "authOK" -> readAuthOK(s, m, e)
    [] s.fr.pc = "saslContinue" -> authenticateSASLContinue(s, m, e)
    [] s.fr.pc = "saslFinal" -> readAuthSASLFinal(s, m, e)
    [] OTHER ->
         IF e.io = "hdr" THEN ReturnErr(s, 0, IoError)
         ELSE CASE m.tag = backendKeyDataMsg -> BackendKeyData(s, m, e)
                [] m.tag = parameterStatusMsg -> logParameterStatus(s, m, e)
                [] m.tag = authenticationOKMsg -> authenticate(s, m, e)
                [] m.tag = readyForQueryMsg ->
                     IF ReadNFails(PayloadLen(m), e) THEN ReturnErr(s, HeaderSize, IoError)
                     ELSE ReturnErr(s, MsgSize(m), NoErr)
                [] m.tag = errorResponseMsg -> ErrorReturn(s, m, e)
                [] OTHER ->
                     ReturnErr(s, HeaderSize,
                       Errorf("pg: unknown startup message response: %q", m.tag))

\* enableSSL wrapping the stream before it looks at the answer
enableSSLEager(s, m, e) ==
  IF e.io = "hdr" THEN ReturnErr(s, 0, IoError)
  ELSE IF m.tag # "S" THEN ReturnErr([s EXCEPT !.cn.NetConn = "tls"], 1, errSSLNotSupported)
  ELSE ReturnErr([s EXCEPT !.cn.NetConn = "tls"], 1, NoErr)

\* enableSSL after the SSLRequest is flushed: c, err := cn.Rd.ReadByte()
enableSSL(s, m, e) ==
  IF e.io = "hdr" THEN ReturnErr(s, 0, IoError)
  ELSE IF m.tag # "S" THEN ReturnErr(s, 1, errSSLNotSupported)
  ELSE ReturnErr([s EXCEPT !.cn.NetConn = "tls"], 1, NoErr)

\* ------------------------------------------------- the server's messages
ReadyForQuery == Msg(readyForQueryMsg, <<Byte("I")>>)
CommandCompleteOf(tag) == Msg(commandCompleteMsg, <<CStr(tag)>>)
ErrorResponse(code) == Msg(errorResponseMsg, <<Byte("C"), CStr(code), Nul>>)
NoticeResponse == Msg(noticeResponseMsg, <<Byte("M"), CStr("note"), Nul>>)
ParameterStatus == Msg(parameterStatusMsg, <<CStr("TimeZone"), CStr("UTC")>>)
BackendKeyData1 == Msg(backendKeyDataMsg, <<I32(11), I32(22)>>)
BackendKeyData2 == Msg(backendKeyDataMsg, <<I32(-1), I32(33)>>)
Authentication(num) == Msg(authenticationOKMsg, <<I32(num)>>)
AuthenticationMD5 == Msg(authenticationOKMsg, <<I32(authenticationMD5Password), Raw(4, "salt")>>)
AuthenticationSASLOf(mechs) ==
  Msg(authenticationOKMsg,
      <<I32(authenticationSASL)>> \o [i \in 1..Len(mechs) |-> CStr(mechs[i])] \o <<CStr("")>>)
AuthenticationData(num) == Msg(authenticationOKMsg, <<I32(num), Raw(3, "sasl")>>)
RowDescription(names) ==
  Msg(rowDescriptionMsg,
      <<I16(Len(names))>> \o
      [i \in 1..2 * Len(names) |->
         IF i % 2 = 1 THEN CStr(names[(i + 1) \div 2]) ELSE Raw(RowMetaSize, "meta")])
\* a DataRow of one-byte values; null is the set of 0-based NULL columns
RECURSIVE DataFields(_, _, _)
DataFields(i, n, null) ==
  IF i >= n THEN <<>>
  ELSE (IF i \in null THEN <<I32(-1)>> ELSE <<I32(1), Raw(1, "v")>>) \o DataFields(i + 1, n, null)
DataRowOf(n, null) == Msg(dataRowMsg, <<I16(n)>> \o DataFields(0, n, null))
Empty(tag) == Msg(tag, <<>>)
ParameterDescription == Msg(parameterDescriptionMsg, <<I16(0)>>)
CopyResponse(tag) == Msg(tag, <<Byte("0"), I16(0)>>)
CopyData == Msg(copyDataMsg, <<Raw(3, "row")>>)
NotificationResponse == Msg(notificationResponseMsg, <<I32(7), CStr("chan"), CStr("hello")>>)
\* a message no reader knows
Unknown == Msg("!", <<Raw(2, "??")>>)
\* the transport fails before any byte of a next message
NoMsg == Msg("", <<>>)

\* one message of every tag
Common ==
  {ReadyForQuery, CommandCompleteOf("SELECT 1"), ErrorResponse("23505"),
   ErrorResponse("42601"), NoticeResponse, ParameterStatus, BackendKeyData1,
   Authentication(authenticationOK), RowDescription(<<"a">>), DataRowOf(1, {}),
   Empty(parseCompleteMsg), Empty(bindCompleteMsg), Empty(closeCompleteMsg),
   Empty(noDataMsg), ParameterDescription, CopyResponse(copyInResponseMsg),
   CopyResponse(copyOutResponseMsg), CopyData, Empty(copyDoneMsg),
   NotificationResponse, Unknown}

AuthMsgs ==
  {Authentication(authenticationCleartextPassword), AuthenticationMD5,
   Authentication(7), AuthenticationData(saslContinueCode),
   AuthenticationData(saslFinalCode), BackendKeyData2,
   AuthenticationSASLOf(<<>>), AuthenticationSASLOf(<<ScramSha256Name>>),
   AuthenticationSASLOf(<<ScramSha256PlusName>>),
   AuthenticationSASLOf(<<ScramSha256PlusName, ScramSha256Name>>),
   AuthenticationSASLOf(<<"PLAIN", ScramSha256Name>>)}

RowMsgs ==
  {RowDescription(<<>>), RowDescription(<<"a", "b">>), DataRowOf(1, {0}),
   DataRowOf(2, {}), DataRowOf(0, {})}

\* the single byte (or the ErrorResponse of a server that knows no SSL)
\* that answers an SSLRequest
SSLReplies == {Empty("S"), Empty("N"), ErrorResponse("23505")}

DataReaders == {"readSimpleQueryData", "readExtQueryData"}

Readers ==
  {"readParseDescribeSync", "readBindMsg", "readCloseCompleteMsg", "readSimpleQuery",
   "readExtQuery", "readSimpleQueryData", "readExtQueryData", "readCopyInResponse",
   "readCopyOutResponse", "readCopyData", "readReadyForQuery", "readNotification"}

\* what the server may send while r runs
Msgs(r) ==
  CASE r = "enableSSL" -> SSLReplies
    [] r = "startup" -> Common \cup AuthMsgs
    [] r \in DataReaders \cup {"readParseDescribeSync"} -> Common \cup RowMsgs
    [] OTHER -> Common

\* ------------------------------------------- transport and collaborators
Env0 ==
  [io |-> "ok", flushErr |-> FALSE, stepErr |-> FALSE, saslValid |-> TRUE,
   newModelErr |-> FALSE, scanErr |-> {}, addErr |-> FALSE, writeErr |-> FALSE]

\* the scanner may fail on any of the columns of a DataRow
ScanFailures(m) ==
  LET colNum == ToInt16(m.fields[1].n)
  IN  IF colNum = 0 \/ Len(m.fields) # 1 + 2 * colNum THEN {}
      ELSE IF colNum = 1 THEN {{0}}
      ELSE {{colNum - 1}, {0, colNum - 1}}

\* the outcomes that can differ while r, with locals f, consumes m
Envs(r, f, m) ==
  {Env0}
  \cup (IF PayloadLen(m) > 0 /\ ~(m.tag = dataRowMsg /\ Len(m.fields) > 3)
        THEN {[Env0 EXCEPT !.io = "body"]} ELSE {})
  \cup (IF r = "startup" /\ m.tag = authenticationOKMsg
        THEN {[Env0 EXCEPT !.flushErr = TRUE], [Env0 EXCEPT !.stepErr = TRUE],
              [Env0 EXCEPT !.saslValid = FALSE]}
        ELSE {})
  \cup (IF r \in DataReaders /\ f.model = "nil"
           /\ m \in {RowDescription(<<"a">>), DataRowOf(1, {})}
        THEN {[Env0 EXCEPT !.newModelErr = TRUE]} ELSE {})
  \cup (IF r \in DataReaders /\ m.tag = dataRowMsg
        THEN {[Env0 EXCEPT !.scanErr = x] : x \in ScanFailures(m)}
             \cup (IF m = DataRowOf(1, {}) THEN {[Env0 EXCEPT !.addErr = TRUE]} ELSE {})
        ELSE {})
  \cup (IF r = "readCopyData" /\ m.tag = copyDataMsg
        THEN {[Env0 EXCEPT !.writeErr = TRUE]} ELSE {})

Inputs(r, f) ==
  {[m |-> NoMsg, e |-> [Env0 EXCEPT !.io = "hdr"]]}
  \cup UNION {{[m |-> m, e |-> e] : e \in Envs(r, f, m)} : m \in Msgs(r)}

\* the column lists a caller may hold from an earlier prepare
ColumnLists == {<<>>, <<"a">>, <<"a", "b">>}

\* ----------------------------------------------------------- write buffer
\* The bytes of a request are numbers; a tag is the number of its character.
queryMsg == 81
syncMsg == 83

\* pool.WriteBuffer: Bytes; start, the offset StartMessage recorded; msgStart,
\* the offset of the length field of the message being built
WriteBuffer0 == [Bytes |-> <<>>, start |-> 0, msgStart |-> 0]

\* a length as four bytes, most significant first
BE32(n) == <<0, 0, n \div 256, n % 256>>

\* start_message(tag or 0): records the offset, writes the tag and a
\* placeholder length
StartMessage(buf, c) ==
  [Bytes |-> buf.Bytes \o (IF c = 0 THEN <<>> ELSE <<c>>) \o BE32(0),
   start |-> Len(buf.Bytes),
   msgStart |-> IF c = 0 THEN Len(buf.Bytes) ELSE Len(buf.Bytes) + 1]

WriteByte(buf, c) == [buf EXCEPT !.Bytes = @ \o <<c>>]

\* finish_message(): back-patches the length field to payload_len + 4
FinishMessage(buf) ==
  LET l == BE32(Len(buf.Bytes) - buf.msgStart)
  IN  [buf EXCEPT !.Bytes = [i \in 1..Len(@) |->
         IF i > buf.msgStart /\ i <= buf.msgStart + 4 THEN l[i - buf.msgStart]
         ELSE @[i]]]

\* reset(): restores the buffer to the start of the current message
Reset(buf) == [buf EXCEPT !.Bytes = SubSeq(@, 1, buf.start)]

\* appendQuery: a QueryAppender appends the query or fails having appended
\* part of it, a string is formatted by the formatter, any other type fails
appendQuery(dst, query, e) ==
  CASE query.type = "QueryAppender" ->
         IF e.appendErr
         THEN [bytes |-> dst \o SubSeq(query.text, 1, Len(query.text) - 1),
               err |-> Errorf("AppendQuery", "")]
         ELSE [bytes |-> dst \o query.text, err |-> NoErr]
    [] query.type = "string" -> [bytes |-> dst \o query.text, err |-> NoErr]
    [] OTHER -> [bytes |-> <<>>, err |-> Errorf("pg: can't append %T", query.type)]

\* writeQueryMsg without the Reset of its error path
writeQueryMsgNoReset(buf, query, e) ==
  LET b == StartMessage(buf, queryMsg)
      r == appendQuery(b.Bytes, query, e)
  IN  IF r.err # NoErr THEN [buf |-> b, err |-> r.err]
      ELSE [buf |-> FinishMessage(WriteByte([b EXCEPT !.Bytes = r.bytes], 0)),
            err |-> NoErr]

writeQueryMsg(buf, query, e) ==
  LET b == StartMessage(buf, queryMsg)
      r == appendQuery(b.Bytes, query, e)
  IN  IF r.err # NoErr THEN [buf |-> Reset(b), err |-> r.err]
      ELSE [buf |-> FinishMessage(WriteByte([b EXCEPT !.Bytes = r.bytes], 0)),
            err |-> NoErr]

writeSyncMsg(buf) == FinishMessage(StartMessage(buf, syncMsg))

\* the byte of a tag the readers know by its character
TagByte(c) == CASE c = copyDataMsg -> 100 [] c = copyDoneMsg -> 99

\* read_from(r): appends what the source yields; a failing source has
\* yielded nothing
ReadFrom(buf, data, e) ==
  IF e.readErr THEN [buf |-> buf, n |-> 0, err |-> IoError]
  ELSE [buf |-> [buf EXCEPT !.Bytes = @ \o data], n |-> Len(data), err |-> NoErr]

writeCopyData(buf, data, e) ==
  LET r == ReadFrom(StartMessage(buf, TagByte(copyDataMsg)), data, e)
  IN  [buf |-> FinishMessage(r.buf), n |-> r.n, err |-> r.err]

writeCopyDone(buf) == FinishMessage(StartMessage(buf, TagByte(copyDoneMsg)))

\* the queries a caller passes: text "", "A" or "AB" as a string or as a
\* QueryAppender, and a value of another type
Queries ==
  [type : {"string", "QueryAppender"}, text : {<<>>, <<65>>, <<65, 66>>}]
    \cup {[type |-> "int", text |-> <<>>]}

\* --------------------------------------------------------- column storage
\* The memory behind the [][]byte column lists. outer: the arrays of []byte
\* values; inner: the byte arrays, each its bytes and its capacity. A slice
\* is [a, len]: an array (0: none) and a length; every slice starts at the
\* first element and has the capacity of its array.
NilSlice == [a |-> 0, len |-> 0]

Mem0 == [outer |-> <<>>, inner |-> <<>>]

\* the bytes a []byte shows
BytesOf(mem, b) == IF b.a = 0 THEN <<>> ELSE SubSeq(mem.inner[b.a].s, 1, b.len)

\* the column names a [][]byte shows
NamesOf(mem, columns) ==
  [i \in 1..columns.len |-> BytesOf(mem, mem.outer[columns.a][i])]

\* setByteSliceLen(b, n)
setByteSliceLen(mem, b, n) ==
  LET c == IF b.a = 0 THEN 0 ELSE Len(mem.outer[b.a])
      old == IF b.a = 0 THEN <<>> ELSE mem.outer[b.a]
  IN  IF n <= c THEN [mem |-> mem, b |-> [b EXCEPT !.len = n]]
      ELSE [mem |-> [mem EXCEPT !.outer =
                       Append(@, old \o [i \in 1..(n - c) |-> NilSlice])],
            b |-> [a |-> Len(mem.outer) + 1, len |-> n]]

\* readBytes(cn, b) with b of length 0: the name and its 0 byte are appended
\* to b, in place when its array has room, in a new array of capacity
\* Len(line) + spare otherwise; the 0 byte is cut from the result
readBytes(mem, b, name, spare) ==
  LET line == name \o <<0>>
      c == IF b.a = 0 THEN 0 ELSE mem.inner[b.a].cap
  IN  IF Len(line) <= c
      THEN [mem |-> [mem EXCEPT !.inner[b.a].s =
                       line \o SubSeq(@, Len(line) + 1, Len(@))],
            b |-> [a |-> b.a, len |-> Len(name)]]
      ELSE [mem |-> [mem EXCEPT !.inner =
                       Append(@, [s |-> line, cap |-> Len(line) + spare])],
            b |-> [a |-> Len(mem.inner) + 1, len |-> Len(name)]]

\* the loop of readRowDescription from column i:
\* columns[i], err = readBytes(cn, columns[i][:0])
RECURSIVE readColumnsFrom(_, _, _, _, _)
readColumnsFrom(mem, columns, names, spare, i) ==
  IF i > Len(names) THEN [mem |-> mem, columns |-> columns]
  ELSE LET r == readBytes(mem, [mem.outer[columns.a][i] EXCEPT !.len = 0],
                          names[i], spare)
       IN  readColumnsFrom([r.mem EXCEPT !.outer[columns.a][i] = r.b],
                           columns, names, spare, i + 1)

\* readRowDescription(cn, columns) on the memory: the list is resized and
\* every name is read into its entry
readRowDescriptionInto(mem, columns, names, spare) ==
  LET r == setByteSliceLen(mem, columns, Len(names))
  IN  readColumnsFrom(r.mem, r.b, names, spare, 1)

\* readParseDescribeSync reading into the connection's cached list
describeIntoCached(mem, cached, names, spare) ==
  readRowDescriptionInto(mem, [cached EXCEPT !.len = 0], names, spare)

\* case rowDescriptionMsg of readParseDescribeSync:
\* columns, err = readRowDescription(cn, nil)
describeColumns(mem, cached, names, spare) ==
  readRowDescriptionInto(mem, NilSlice, names, spare)

\* case rowDescriptionMsg of readSimpleQueryData:
\* cn.Columns, err = readRowDescription(cn, cn.Columns[:0])
cacheColumns(mem, cached, names, spare) ==
  readRowDescriptionInto(mem, [cached EXCEPT !.len = 0], names, spare)

\* the column names of the RowDescriptions received: a, b, ab
NameLists == {<<>>, <<<<97>>>>, <<<<98>>, <<97>>>>, <<<<97, 98>>>>}

\* ------------------------------------------------------------------ state
VARIABLES
  cn,      \* the connection: ProcessId, SecretKey, Columns, NetConn
  cur,     \* the function called last
  fr,      \* its locals and, once it returned, its return value
  rd,      \* what it has read from the stream (a record kept for the
           \* properties): the last message, its outcome and the bytes taken
           \* from it; the first ErrorResponse; the DataRows; the last
           \* BackendKeyData
  prev,    \* how the call before it ended
  ncalls,  \* calls made so far
  nread,   \* messages read so far
  wr,      \* the connection's write buffer
  wlog,    \* the calls made on it (a record kept for the properties): the
           \* last call, its query and error, the buffer and the bytes sent
           \* before it, the bytes sent, whether the call before it failed
  cols     \* the column storage: mem, the memory; Columns, cn.Columns as a
           \* slice; prepared, the lists readParseDescribeSync returned, each
           \* with the names it held when returned; n, the calls made

vars == <<cn, cur, fr, rd, prev, ncalls, nread, wr, wlog, cols>>

Cols0 == [mem |-> Mem0, Columns |-> NilSlice, prepared |-> <<>>, n |-> 0]

WLog0 ==
  [op |-> "", query |-> [type |-> "", text |-> <<>>], err |-> NoErr,
   pre |-> <<>>, sentPre |-> 0, sent |-> 0, prevFailed |-> FALSE, n |-> 0]

\* last: the message read last, the place (pc) that read it, its outcome,
\* the bytes taken from it and its size; firstE: the first ErrorResponse
\* received; nD, nK: the DataRow and BackendKeyData messages received; lastK:
\* the last BackendKeyData; nDatC: nD when the last CommandComplete was
\* received (-1: none); lastC: the last CommandComplete; authOK: an
\* Authentication message of sub-code 0 was received; localFirst: a
\* collaborator (model, scanner) reported a failure before any ErrorResponse
\* was received
Rd0 ==
  [last |-> [m |-> NoMsg, pc |-> "", e |-> Env0, used |-> 0, size |-> 0,
             row |-> NoRow],
   firstE |-> NoMsg, nD |-> 0, nK |-> 0, lastK |-> NoMsg, nDatC |-> -1,
   lastC |-> NoMsg, authOK |-> FALSE, localFirst |-> FALSE]

\* the bytes on the stream of the message (for enableSSL, of the answer)
EntrySize(r, m) == IF r = "enableSSL" /\ m.fields = <<>> THEN 1 ELSE MsgSize(m)

\* the message was received and taken whole, and no more
Whole(x) == x.e.io = "ok" /\ x.used = x.size

Record(r, pc, m, e, used, row) ==
  LET got == e.io = "ok"
  IN  [last |-> [m |-> m, pc |-> pc, e |-> e, used |-> used, size |-> EntrySize(r, m),
                 row |-> row],
       firstE |-> IF rd.firstE = NoMsg /\ m.tag = errorResponseMsg /\ got
                  THEN m ELSE rd.firstE,
       nD |-> IF m.tag = dataRowMsg /\ got THEN rd.nD + 1 ELSE rd.nD,
       nK |-> IF m.tag = backendKeyDataMsg /\ got THEN rd.nK + 1 ELSE rd.nK,
       lastK |-> IF m.tag = backendKeyDataMsg /\ got THEN m ELSE rd.lastK,
       nDatC |-> IF m.tag = commandCompleteMsg /\ got THEN rd.nD ELSE rd.nDatC,
       lastC |-> IF m.tag = commandCompleteMsg /\ got THEN m ELSE rd.lastC,
       authOK |-> \/ rd.authOK
                  \/ /\ m.tag = authenticationOKMsg /\ got
                     /\ m.fields[1] = I32(authenticationOK),
       localFirst |-> \/ rd.localFirst
                      \/ /\ rd.firstE = NoMsg
                         /\ (e.newModelErr \/ e.addErr \/ e.scanErr # {})]

\* the reader stands at the first byte of a message
Aligned == Whole(rd.last)

\* the last message read is a ReadyForQuery, read to its end
AtReady == rd.last.m.tag = readyForQueryMsg /\ Whole(rd.last)

Dispatch(r, s, m, e) ==
  CASE r = "startup" -> startup(s, m, e)
    [] r = "enableSSL" -> enableSSL(s, m, e)
    [] r = "readParseDescribeSync" -> readParseDescribeSync(s, m, e)
    [] r = "readBindMsg" -> readBindMsg(s, m, e)
    [] r = "readCloseCompleteMsg" -> readCloseCompleteMsg(s, m, e)
    [] r = "readSimpleQuery" -> readSimpleQuery(s, m, e)
    [] r = "readExtQuery" -> readExtQuery(s, m, e)
    [] r = "readSimpleQueryData" -> readSimpleQueryData(s, m, e)
    [] r = "readExtQueryData" -> readExtQueryData(s, m, e)
    [] r = "readCopyInResponse" -> readCopyInResponse(s, m, e)
    [] r = "readCopyOutResponse" -> readCopyOutResponse(s, m, e)
    [] r = "readCopyData" -> readCopyData(s, m, e)
    [] r = "readReadyForQuery" -> readReadyForQuery(s, m, e)
    [] OTHER -> readNotification(s, m, e)

Init ==
  /\ cn = [ProcessId |-> 0, SecretKey |-> 0, Columns |-> <<>>, NetConn |-> "plain"]
  /\ cur = "none"
  /\ fr = [Frame0 EXCEPT !.ret.st = "returned"]
  /\ rd = Rd0
  /\ prev = [query |-> FALSE, err |-> "nil", atReady |-> FALSE]
  /\ ncalls = 0
  /\ nread = 0
  /\ wr = WriteBuffer0
  /\ wlog = WLog0
  /\ cols = Cols0

\* The calls a caller makes one after the other on a connection: the
\* handshake after the SSL negotiation, a query after another query.
QueryReaders ==
  {"readSimpleQuery", "readExtQuery", "readSimpleQueryData", "readExtQueryData"}

Follows(r) ==
  CASE cur = "none" -> TRUE
    [] cur = "enableSSL" -> r = "startup"
    [] cur \in QueryReaders -> r \in QueryReaders
    [] OTHER -> FALSE

\* the caller may start a function when the one before returned and left
\* the stream at the start of a message
CanCall == fr.ret.st = "returned" /\ Aligned /\ ncalls < MaxCalls

Enter(r, f) ==
  /\ Follows(r)
  /\ cur' = r
  /\ fr' = f
  /\ rd' = Rd0
  /\ prev' = [query |-> cur \in QueryReaders, err |-> fr.ret.err.kind, atReady |-> AtReady]
  /\ ncalls' = ncalls + 1
  /\ UNCHANGED <<cn, nread, wr, wlog, cols>>

\* a reader is called after its request was flushed
Call ==
  /\ CanCall
  /\ \E r \in Readers \ {"readExtQueryData"} : Enter(r, Frame0)

\* readExtQueryData(cn, mod, columns)
CallExtQueryData ==
  /\ CanCall
  /\ \E columns \in ColumnLists :
       Enter("readExtQueryData", [Frame0 EXCEPT !.columns = columns])

\* startup up to its first read: writeStartupMsg, FlushWriter
CallStartup ==
  /\ CanCall
  /\ \E flushErr \in BOOLEAN :
       Enter("startup",
             IF flushErr
             THEN [Frame0 EXCEPT !.ret = [Running EXCEPT !.st = "returned", !.err = IoError]]
             ELSE [Frame0 EXCEPT !.sent = <<[tag |-> "", body |-> "Startup"]>>])

\* enableSSL up to its read: writeSSLMsg, FlushWriter
CallEnableSSL ==
  /\ CanCall
  /\ \E flushErr \in BOOLEAN :
       Enter("enableSSL",
             IF flushErr
             THEN [Frame0 EXCEPT !.ret = [Running EXCEPT !.st = "returned", !.err = IoError]]
             ELSE [Frame0 EXCEPT !.sent = <<[tag |-> "", body |-> "SSLRequest"]>>])

\* the running function reads its next message and acts on it; once the
\* transport has failed, every later read fails
StepOn(r, inputs) ==
  /\ fr.ret.st = "running"
  /\ nread < MaxMsgs
  /\ \E in \in inputs :
       LET s == Dispatch(r, [cn |-> cn, fr |-> fr, used |-> 0, row |-> NoRow], in.m, in.e)
       IN  /\ rd.last.e.io # "ok" => in.e.io = "hdr"
           /\ cn' = s.cn
           /\ fr' = s.fr
           /\ rd' = Record(r, fr.pc, in.m, in.e, s.used, s.row)
           /\ nread' = nread + 1
           /\ UNCHANGED <<cur, prev, ncalls, wr, wlog, cols>>

Step(r) == StepOn(r, Inputs(r, fr))

Startup ==
  /\ cur = "startup"
  /\ Step("startup")
EnableSSL ==
  /\ cur = "enableSSL"
  /\ Step("enableSSL")
ReadParseDescribeSync ==
  /\ cur = "readParseDescribeSync"
  /\ Step("readParseDescribeSync")
ReadBindMsg ==
  /\ cur = "readBindMsg"
  /\ Step("readBindMsg")
ReadCloseCompleteMsg ==
  /\ cur = "readCloseCompleteMsg"
  /\ Step("readCloseCompleteMsg")
ReadSimpleQuery ==
  /\ cur = "readSimpleQuery"
  /\ Step("readSimpleQuery")
ReadExtQuery ==
  /\ cur = "readExtQuery"
  /\ Step("readExtQuery")
ReadSimpleQueryData ==
  /\ cur = "readSimpleQueryData"
  /\ Step("readSimpleQueryData")
ReadExtQueryData ==
  /\ cur = "readExtQueryData"
  /\ Step("readExtQueryData")
ReadCopyInResponse ==
  /\ cur = "readCopyInResponse"
  /\ Step("readCopyInResponse")
ReadCopyOutResponse ==
  /\ cur = "readCopyOutResponse"
  /\ Step("readCopyOutResponse")
ReadCopyData ==
  /\ cur = "readCopyData"
  /\ Step("readCopyData")
ReadReadyForQuery ==
  /\ cur = "readReadyForQuery"
  /\ Step("readReadyForQuery")
ReadNotification ==
  /\ cur = "readNotification"
  /\ Step("readNotification")

Next ==
  \/ Call
  \/ CallExtQueryData
  \/ CallStartup
  \/ CallEnableSSL
  \/ Startup
  \/ EnableSSL
  \/ ReadParseDescribeSync
  \/ ReadBindMsg
  \/ ReadCloseCompleteMsg
  \/ ReadSimpleQuery
  \/ ReadExtQuery
  \/ ReadSimpleQueryData
  \/ ReadExtQueryData
  \/ ReadCopyInResponse
  \/ ReadCopyOutResponse
  \/ ReadCopyData
  \/ ReadReadyForQuery
  \/ ReadNotification

Spec == Init /\ [][Next]_vars

\* ------------------------------------------------------ the request writer
\* The calls a caller makes on the write buffer of a connection it does not
\* read from meanwhile.
Written(op, query, r) ==
  /\ wlog.n < MaxWrites
  /\ wr' = r.buf
  /\ wlog' = [op |-> op, query |-> query, err |-> r.err, pre |-> wr.Bytes,
              sentPre |-> wlog.sent, sent |-> wlog.sent,
              prevFailed |-> wlog.err # NoErr, n |-> wlog.n + 1]
  /\ UNCHANGED <<cn, cur, fr, rd, prev, ncalls, nread, cols>>

WriteQueryMsg ==
  \E query \in Queries, appendErr \in BOOLEAN :
    /\ appendErr => query.type = "QueryAppender" /\ query.text # <<>>
    /\ Written("writeQueryMsg", query, writeQueryMsg(wr, query, [appendErr |-> appendErr]))

WriteSyncMsg ==
  /\ wlog.n < MaxWrites
  /\ Written("writeSyncMsg", WLog0.query, [buf |-> writeSyncMsg(wr), err |-> NoErr])

\* cn.FlushWriter(): the buffer is written to the connection and emptied
FlushWriter ==
  /\ wlog.n < MaxWrites
  /\ wr' = [wr EXCEPT !.Bytes = <<>>]
  /\ wlog' = [wlog EXCEPT !.op = "FlushWriter", !.query = WLog0.query, !.err = NoErr,
                          !.pre = wr.Bytes, !.sentPre = wlog.sent,
                          !.sent = @ + Len(wr.Bytes), !.prevFailed = wlog.err # NoErr,
                          !.n = @ + 1]
  /\ UNCHANGED <<cn, cur, fr, rd, prev, ncalls, nread, cols>>

WriterNext ==
  \/ WriteQueryMsg
  \/ WriteSyncMsg
  \/ FlushWriter

WriterSpec == Init /\ [][WriterNext]_vars

\* ------------------------------------------------- the column descriptors
\* Calls that receive one RowDescription on a working connection, seen from
\* the memory their column lists live in.
\* readParseDescribeSync: ParseComplete, RowDescription, ReadyForQuery
DescribeColumns ==
  /\ cols.n < MaxDescribes
  /\ \E names \in NameLists, spare \in {0, 1} :
       LET r == describeColumns(cols.mem, cols.Columns, names, spare)
       IN  cols' = [cols EXCEPT !.mem = r.mem, !.n = @ + 1,
                      !.prepared = Append(@, [columns |-> r.columns,
                                               names |-> NamesOf(r.mem, r.columns)])]
  /\ UNCHANGED <<cn, cur, fr, rd, prev, ncalls, nread, wr, wlog>>

\* readSimpleQueryData: RowDescription, ..., ReadyForQuery
CacheColumns ==
  /\ cols.n < MaxDescribes
  /\ \E names \in NameLists, spare \in {0, 1} :
       LET r == cacheColumns(cols.mem, cols.Columns, names, spare)
       IN  cols' = [cols EXCEPT !.mem = r.mem, !.n = @ + 1, !.Columns = r.columns]
  /\ UNCHANGED <<cn, cur, fr, rd, prev, ncalls, nread, wr, wlog>>

ColumnsNext ==
  \/ DescribeColumns
  \/ CacheColumns

ColumnsSpec == Init /\ [][ColumnsNext]_vars

\* ------------------------------------------------------ the COPY FROM cycle
\* The caller of a COPY FROM STDIN: readCopyInResponse, then, when it
\* returned nil, writeCopyData for each chunk of the source, writeCopyDone,
\* writeSyncMsg, FlushWriter and readReadyForQuery.
CopyChunks == {<<>>, <<1>>}

\* what the server answers to the end of a COPY of two rows
CopyComplete == CommandCompleteOf("COPY 2")

CopyInAccepted ==
  /\ cur = "readCopyInResponse"
  /\ fr.ret.st = "returned" /\ fr.ret.err = NoErr
  /\ wlog.err = NoErr

CopyWritten(op, buf, err) ==
  /\ wr' = buf
  /\ wlog' = [wlog EXCEPT !.op = op, !.err = err, !.pre = wr.Bytes,
                          !.sentPre = wlog.sent, !.prevFailed = wlog.err # NoErr,
                          !.n = @ + 1]
  /\ UNCHANGED <<cn, cur, fr, rd, prev, ncalls, nread, cols>>

CallCopyInResponse ==
  /\ cur = "none"
  /\ CanCall
  /\ Enter("readCopyInResponse", Frame0)

WriteCopyData ==
  /\ CopyInAccepted
  /\ wlog.op \in {"", "writeCopyData"}
  /\ wlog.n < MaxWrites
  /\ \E data \in CopyChunks, readErr \in BOOLEAN :
       LET r == writeCopyData(wr, data, [readErr |-> readErr])
       IN  CopyWritten("writeCopyData", r.buf, r.err)

WriteCopyDone ==
  /\ CopyInAccepted
  /\ wlog.op \in {"", "writeCopyData"}
  /\ CopyWritten("writeCopyDone", writeCopyDone(wr), NoErr)

WriteCopySync ==
  /\ CopyInAccepted
  /\ wlog.op = "writeCopyDone"
  /\ CopyWritten("writeSyncMsg", writeSyncMsg(wr), NoErr)

\* FlushWriter, then readReadyForQuery up to its first read
CallReadyForQuery ==
  /\ CopyInAccepted
  /\ wlog.op = "writeSyncMsg"
  /\ wr' = [wr EXCEPT !.Bytes = <<>>]
  /\ wlog' = [wlog EXCEPT !.op = "FlushWriter", !.pre = wr.Bytes,
                          !.sentPre = wlog.sent, !.sent = @ + Len(wr.Bytes),
                          !.n = @ + 1]
  /\ cur' = "readReadyForQuery"
  /\ fr' = Frame0
  /\ rd' = Rd0
  /\ prev' = [query |-> FALSE, err |-> fr.ret.err.kind, atReady |-> AtReady]
  /\ ncalls' = ncalls + 1
  /\ UNCHANGED <<cn, nread, cols>>

CopyReadyForQuery ==
  /\ cur = "readReadyForQuery"
  /\ StepOn("readReadyForQuery",
            Inputs("readReadyForQuery", fr)
              \cup {[m |-> CopyComplete, e |-> e] :
                      e \in Envs("readReadyForQuery", fr, CopyComplete)})

CopyFromNext ==
  \/ CallCopyInResponse
  \/ ReadCopyInResponse
  \/ WriteCopyData
  \/ WriteCopyDone
  \/ WriteCopySync
  \/ CallReadyForQuery
  \/ CopyReadyForQuery

CopyFromSpec == Init /\ [][CopyFromNext]_vars

\* ------------------------------------------------------------ properties
Returned == cur # "none" /\ fr.ret.st = "returned"

\* the call has read from the stream
HasRead == rd.last.size > 0 \/ rd.last.e.io # "ok"

\* the ServerError an ErrorResponse of one field stands for
ExpectedError(m) ==
  NewPGError({<<"a", RemoteAddr>>, <<m.fields[1].s, m.fields[2].s>>})

\* the readers C1 names besides the query readers
PrepareBindCopyReaders == {"readParseDescribeSync", "readBindMsg", "readCopyData"}

\* C1: the prepare, bind and copy-out data readers, when they return a server
\* error, have consumed ReadyForQuery as their last message.
C1_ServerErrorEndsAtReadyForQuery ==
  (cur \in PrepareBindCopyReaders /\ Returned /\ fr.ret.err.kind = "ServerError")
    => AtReady

\* C2 as stated: a query reader that read a response with ErrorResponses up
\* to its ReadyForQuery returns the first ErrorResponse of that response.
C2_ReturnsFirstErrorResponse ==
  (cur \in QueryReaders /\ Returned /\ AtReady /\ rd.firstE # NoMsg)
    => fr.ret.err = ExpectedError(rd.firstE)

\* C2 amended: a query reader goes on reading after every ErrorResponse and
\* returns a server error only after ReadyForQuery; the error returned for a
\* response with ErrorResponses is the first of them, unless a data reader
\* recorded a model, scan or add error before it, which is then returned;
\* the call that follows starts after that ReadyForQuery and, reading a
\* response without error, succeeds.
C2_DrainsAndKeepsFirstError ==
  cur \in QueryReaders =>
    /\ (rd.last.m.tag = errorResponseMsg /\ Whole(rd.last)) => fr.ret.st = "running"
    /\ (Returned /\ fr.ret.err.kind = "ServerError") => AtReady
    /\ (Returned /\ AtReady /\ rd.firstE # NoMsg) =>
         /\ fr.ret.err # NoErr
         /\ fr.ret.err.kind = "ServerError" => fr.ret.err = ExpectedError(rd.firstE)
         /\ fr.ret.err.kind # "ServerError" => cur \in DataReaders /\ rd.localFirst
    /\ (prev.query /\ prev.err = "ServerError") =>
         /\ prev.atReady
         /\ (Returned /\ AtReady /\ rd.firstE = NoMsg /\ ~rd.localFirst)
              => fr.ret.err = NoErr

\* C2 witness: after a query reader returned an ErrorResponse, a second one
\* read a response with two ErrorResponses and returned the first.
C2_Witness ==
  /\ cur \in QueryReaders /\ prev.query /\ prev.err = "ServerError" /\ prev.atReady
  /\ Returned /\ AtReady
  /\ rd.firstE = ErrorResponse("42601")
  /\ fr.ret.err = ExpectedError(ErrorResponse("42601"))

\* the functions whose successful return ends a request/response cycle
CycleReaders ==
  {"startup", "readParseDescribeSync", "readBindMsg", "readSimpleQuery", "readExtQuery",
   "readSimpleQueryData", "readExtQueryData", "readCopyData", "readReadyForQuery"}

\* C3: when one of these functions returns without error, the last message
\* it consumed is ReadyForQuery: header and 1-byte status taken, no more.
C3_SuccessEndsAtReadyForQuery ==
  (cur \in CycleReaders /\ Returned /\ fr.ret.err = NoErr) =>
    /\ rd.last.m.tag = readyForQueryMsg
    /\ rd.last.e.io = "ok"
    /\ rd.last.used = HeaderSize + 1
    /\ rd.last.used = rd.last.size

C3_Witness ==
  /\ cur = "readBindMsg" /\ Returned /\ fr.ret.err = NoErr
  /\ rd.last.m = ReadyForQuery /\ rd.last.used = 6

\* a step that received a NoticeResponse or ParameterStatus without a
\* transport failure
SideStep ==
  /\ nread' = nread + 1
  /\ cur \in Readers \cup {"startup"}
  /\ rd'.last.m.tag \in {noticeResponseMsg, parameterStatusMsg}
  /\ rd'.last.e.io = "ok"

\* C4: a NoticeResponse or ParameterStatus anywhere in a response changes
\* neither what a reader returns nor where it stops: consuming one leaves
\* the reader's locals, its return value and the connection as they were.
C4_SideChannelInvisible == [][SideStep => (fr' = fr /\ cn' = cn)]_vars

\* C5: no message loop fails on a NoticeResponse or a ParameterStatus: a
\* function never returns on having received one.
C5_SideChannelAccepted ==
  ~(/\ cur \in Readers \cup {"startup"}
    /\ fr.ret.st = "returned"
    /\ rd.last.m.tag \in {noticeResponseMsg, parameterStatusMsg}
    /\ rd.last.e.io = "ok")

\* C6 as stated: the Result a query reader returns at ReadyForQuery carries
\* the number of DataRow messages consumed in the call.
C6_RowsEqualDataRows ==
  (cur \in QueryReaders /\ Returned /\ AtReady /\ ~fr.ret.res.nil) =>
    fr.ret.res.rows = rd.nD

\* C6 amended: the Result carries the number of DataRow messages consumed
\* before the last CommandComplete, which is the total when no DataRow
\* follows it; without any CommandComplete the Result is nil.
C6_RowsAtLastCommandComplete ==
  (cur \in QueryReaders /\ Returned /\ AtReady) =>
    /\ fr.ret.res.nil <=> rd.nDatC = -1
    /\ ~fr.ret.res.nil => fr.ret.res.rows = rd.nDatC
    /\ (~fr.ret.res.nil /\ rd.nDatC = rd.nD) => fr.ret.res.rows = rd.nD

C6_Witness ==
  /\ cur \in QueryReaders /\ Returned /\ AtReady
  /\ ~fr.ret.res.nil /\ fr.ret.res.rows = 2 /\ rd.nD = 3

\* UnexpectedMessage(reader, tag) as the readers format it
UnexpectedMessage(reader, tag) ==
  Errorf("pg: " \o reader \o ": unexpected message %#x", tag)

\* C7: a message whose tag a reader does not accept makes it return at once,
\* the payload left unread, with UnexpectedMessage naming the running reader
\* and the tag.
C7_UnexpectedMessageNamesReader ==
  cur \in Readers =>
    /\ (rd.last.m = Unknown /\ rd.last.e.io = "ok") => Returned
    /\ (Returned /\ fr.ret.err.kind = "Errorf") =>
         /\ rd.last.used = HeaderSize
         /\ fr.ret.err = UnexpectedMessage(cur, rd.last.m.tag)

\* the two values a BackendKeyData carries
KeyData(m) == IF m = BackendKeyData1 THEN <<11, 22>> ELSE <<-1, 33>>

\* C8: startup succeeds exactly when its own loop reads ReadyForQuery, and
\* then ProcessId and SecretKey are those of the last BackendKeyData.
C8_StartupSuccess ==
  (cur = "startup" /\ Returned) =>
    /\ fr.ret.err = NoErr <=> (AtReady /\ rd.last.pc = "loop")
    /\ (fr.ret.err = NoErr /\ rd.lastK # NoMsg) =>
         <<cn.ProcessId, cn.SecretKey>> = KeyData(rd.lastK)

C8_Witness ==
  /\ cur = "startup" /\ Returned /\ fr.ret.err = NoErr
  /\ rd.nK = 2 /\ rd.lastK = BackendKeyData2
  /\ cn.ProcessId = -1 /\ cn.SecretKey = 33

\* the mechanism names an AuthenticationSASL offers
Offered(m) == {m.fields[i].s : i \in 2..Len(m.fields)} \ {""}

\* C9: on AuthenticationSASL (transport and negotiator working),
\* SCRAM-SHA-256 is selected whenever it is offered, and otherwise
\* authentication fails before a SASLInitialResponse is sent. Any way of
\* not going on (an error of any text, or the failed call on the zero
\* Mechanism) is taken as failing.
C9_SaslMechanismSelection ==
  (/\ cur = "startup"
   /\ rd.last.pc = "loop"
   /\ rd.last.m.tag = authenticationOKMsg
   /\ rd.last.m.fields[1] = I32(authenticationSASL)
   /\ rd.last.e = Env0) =>
    IF ScramSha256Name \in Offered(rd.last.m)
    THEN /\ fr.ret.st = "running"
         /\ fr.sent[Len(fr.sent)] = [tag |-> saslInitialResponseMsg, body |-> ScramSha256Name]
    ELSE /\ fr.ret.st # "running"
         /\ fr.ret.st = "returned" => fr.ret.err # NoErr
         /\ Len(fr.sent) = 1

\* C10: enableSSL reads one byte after the SSLRequest; on 'S' the stream is
\* replaced by TLS, on any other byte it returns SslNotSupported with the
\* stream as it was and nothing more consumed.
C10_EnableSSL ==
  /\ [](cur = "enableSSL" /\ HasRead /\ rd.last.e.io = "ok" =>
          /\ fr.sent = <<[tag |-> "", body |-> "SSLRequest"]>>
          /\ Returned
          /\ rd.last.used = 1
          /\ IF rd.last.m.tag = "S"
             THEN fr.ret.err = NoErr /\ cn.NetConn = "tls"
             ELSE fr.ret.err = errSSLNotSupported)
  /\ [][(cur = "enableSSL" /\ nread' = nread + 1 /\ rd'.last.m.tag # "S")
          => cn' = cn]_vars

C10_Witness ==
  /\ cur = "enableSSL" /\ Returned
  /\ rd.last.m = Empty("N") /\ rd.last.used = 1
  /\ fr.ret.err = errSSLNotSupported /\ cn.NetConn = "plain"

\* the Query message of the last call: tag, length, text, 0
QueryMessage(text) == <<queryMsg>> \o BE32(4 + Len(text) + 1) \o text \o <<0>>

\* C11: a writeQueryMsg that fails leaves the write buffer holding what it
\* held before the call and sends nothing; the writeQueryMsg that follows a
\* failed one and succeeds appends one well-formed Query message.
C11_WriteQueryMsgFailureRestoresBuffer ==
  wlog.op = "writeQueryMsg" =>
    /\ wlog.err # NoErr => (wr.Bytes = wlog.pre /\ wlog.sent = wlog.sentPre)
    /\ (wlog.err = NoErr /\ wlog.prevFailed) =>
         wr.Bytes = wlog.pre \o QueryMessage(wlog.query.text)

\* C11 witness: with a Sync message in the buffer, a QueryAppender failed
\* having appended part of its text, and the next call wrote its query.
C11_Witness ==
  /\ wlog.op = "writeQueryMsg" /\ wlog.err = NoErr /\ wlog.prevFailed
  /\ wlog.pre = <<syncMsg, 0, 0, 0, 4>>
  /\ wr.Bytes = <<syncMsg, 0, 0, 0, 4, queryMsg, 0, 0, 0, 6, 65, 0>>

\* C12: a transport error met while a reader is consuming a message makes
\* it return at once with that error: after a message header could not be
\* read, and after the fields of a DataRow could not be read by a reader with
\* a model, the function has returned the transport's error.
C12_TransportErrorReturnsAtOnce ==
  (\/ cur \in Readers \cup {"startup"} /\ rd.last.e.io = "hdr"
   \/ /\ cur \in DataReaders
      /\ rd.last.m.tag = dataRowMsg
      /\ rd.last.e.io = "body"
      /\ fr.ret.st # "panic")
    => (Returned /\ fr.ret.err = IoError)

\* C13: every column list a prepare returned still shows the names it held
\* when it was returned, whatever readSimpleQueryData and later prepares
\* have read since.
C13_PreparedColumnsNeverChange ==
  \A i \in 1..Len(cols.prepared) :
    NamesOf(cols.mem, cols.prepared[i].columns) = cols.prepared[i].names

\* C13 witness: a prepare returned the columns b, a between two
\* readSimpleQueryData, the first storing ab in cn.Columns and the second
\* writing a over it in the same array.
C13_Witness ==
  /\ cols.n = 3 /\ Len(cols.prepared) = 1
  /\ cols.prepared[1].names = <<<<98>>, <<97>>>>
  /\ NamesOf(cols.mem, cols.Columns) = <<<<97>>>>
  /\ Len(cols.mem.outer) = 2
  /\ cols.mem.inner[1].s = <<97, 0, 0>>

\* C14: readReadyForQuery, having read a response with ErrorResponses up to
\* its ReadyForQuery, returns the first of them.
C14_ReadyForQueryReturnsFirstError ==
  (cur = "readReadyForQuery" /\ Returned /\ AtReady /\ rd.firstE # NoMsg)
    => fr.ret.err = ExpectedError(rd.firstE)

\* C15: readCloseCompleteMsg returns success only after it has consumed the
\* ReadyForQuery that ends the cycle.
C15_CloseCompleteEndsAtReadyForQuery ==
  (cur = "readCloseCompleteMsg" /\ Returned /\ fr.ret.err = NoErr) => AtReady

\* startup takes a step that reads a message
StartupStep == cur = "startup" /\ nread' = nread + 1

\* the step received, whole, an Authentication message of sub-code num
AuthStep(num) ==
  /\ rd'.last.m.tag = authenticationOKMsg
  /\ rd'.last.e.io = "ok"
  /\ rd'.last.m.fields[1] = I32(num)

\* the step made the function wait at place pc for the server's next message
Waits(pc) == fr.pc # pc /\ fr'.pc = pc

\* the step sent one message and nothing else
Sends(tag, body) == fr'.sent = Append(fr.sent, [tag |-> tag, body |-> body])

\* the step ended the function with an error and sent nothing
Fails == fr'.ret.st = "returned" /\ fr'.ret.err # NoErr /\ fr'.sent = fr.sent

\* C16: the SASL exchange goes in one order. The wait for sub-code 11 begins
\* only on AuthenticationSASL, with SASLInitialResponse sent in that step;
\* the wait for sub-code 12 only on sub-code 11, with SASLResponse sent; the
\* wait for sub-code 0 only on sub-code 12 with the negotiator in state
\* ValidServerResponse; the startup loop resumes from there only on
\* sub-code 0; and at each of these waits any step that does not go on to
\* the next ends the function with an error.
C16_SaslExchangeOrder ==
  [][StartupStep =>
      /\ Waits("saslContinue") =>
           /\ fr.pc = "loop" /\ AuthStep(authenticationSASL)
           /\ Sends(saslInitialResponseMsg, ScramSha256Name)
      /\ Waits("saslFinal") =>
           /\ fr.pc = "saslContinue" /\ AuthStep(saslContinueCode)
           /\ Sends(saslResponseMsg, "client-final")
      /\ Waits("authOK") =>
           /\ fr.pc = "saslFinal" /\ AuthStep(saslFinalCode)
           /\ rd'.last.e.saslValid /\ ~rd'.last.e.stepErr
           /\ fr'.sent = fr.sent
      /\ (fr.pc \in {"saslContinue", "saslFinal", "authOK"} /\ Waits("loop")) =>
           /\ fr.pc = "authOK" /\ AuthStep(authenticationOK)
           /\ fr'.sent = fr.sent
      /\ fr.pc \in {"saslContinue", "saslFinal", "authOK"} =>
           \/ fr'.pc # fr.pc /\ fr'.ret.st = "running"
           \/ Fails]_vars

\* C16 witness: startup succeeded after a whole SASL exchange.
C16_Witness ==
  /\ cur = "startup" /\ Returned /\ fr.ret.err = NoErr /\ fr.pc = "loop"
  /\ fr.sent = <<[tag |-> "", body |-> "Startup"],
                 [tag |-> saslInitialResponseMsg, body |-> ScramSha256Name],
                 [tag |-> saslResponseMsg, body |-> "client-final"]>>

\* the step received, whole, a request for the cleartext or the MD5 password
PasswordRequest ==
  AuthStep(authenticationCleartextPassword) \/ AuthStep(authenticationMD5Password)

\* C17: a request for the cleartext or MD5 password makes startup send one
\* PasswordMessage and wait for the reply (or fail when it cannot be
\* flushed), and nothing else makes it wait for one; the reply is read
\* without sending anything: on sub-code 0 the startup loop resumes, an
\* ErrorResponse is returned as the error, anything else fails.
C17_PasswordExchange ==
  [][StartupStep =>
      /\ Waits("password") => fr.pc = "loop" /\ PasswordRequest
      /\ (fr.pc = "loop" /\ PasswordRequest) =>
           \/ /\ Waits("password") /\ fr'.ret.st = "running"
              /\ Sends(passwordMessageMsg,
                       IF AuthStep(authenticationMD5Password) THEN "md5" ELSE "password")
           \/ Fails /\ rd'.last.e.flushErr
      /\ fr.pc = "password" =>
           /\ fr'.sent = fr.sent
           /\ IF AuthStep(authenticationOK)
              THEN fr'.pc = "loop" /\ fr'.ret.st = "running"
              ELSE /\ Fails
                   /\ (rd'.last.m.tag = errorResponseMsg /\ rd'.last.e.io = "ok")
                        => fr'.ret.err = ExpectedError(rd'.last.m)]_vars

\* C17 witness: startup succeeded having answered an MD5 request with one
\* PasswordMessage.
C17_Witness ==
  /\ cur = "startup" /\ Returned /\ fr.ret.err = NoErr /\ AtReady
  /\ fr.sent = <<[tag |-> "", body |-> "Startup"],
                 [tag |-> passwordMessageMsg, body |-> "md5"]>>

\* C18: the list a successful prepare returns is the one read from the last
\* RowDescription received: as long as the i16 field count of that message,
\* entry i the name of field i; it is empty when none was received. The list
\* is empty when the call begins, a RowDescription replaces it, no other
\* message changes it, and the return at ReadyForQuery hands it over.
C18_PreparedColumnsAreTheNames ==
  /\ []((cur = "readParseDescribeSync" /\ ~HasRead) => fr.columns = <<>>)
  /\ [][(cur = "readParseDescribeSync" /\ nread' = nread + 1) =>
          /\ (rd'.last.m.tag = rowDescriptionMsg /\ rd'.last.e.io = "ok") =>
               /\ Len(fr'.columns) = ToInt16(rd'.last.m.fields[1].n)
               /\ \A i \in 1..Len(fr'.columns) :
                    fr'.columns[i] = rd'.last.m.fields[2 * i].s
          /\ rd'.last.m.tag # rowDescriptionMsg => fr'.columns = fr.columns
          /\ (fr'.ret.st = "returned" /\ fr'.ret.err = NoErr) =>
               fr'.ret.columns = fr.columns]_vars

\* C18 witness: a prepare returned the two names of its RowDescription.
C18_Witness ==
  /\ cur = "readParseDescribeSync" /\ Returned /\ fr.ret.err = NoErr
  /\ fr.ret.columns = <<"a", "b">>

\* the lengths the fields of a DataRow announce, from position pos of its
\* payload (-1: NULL, followed by no bytes)
RECURSIVE FieldLens(_, _)
FieldLens(fs, pos) ==
  IF pos > Len(fs) THEN <<>>
  ELSE LET l == ToInt32(fs[pos])
       IN  <<l>> \o FieldLens(fs, IF l = -1 THEN pos + 1 ELSE pos + 2)

RECURSIVE SumOf(_)
SumOf(q) == IF q = <<>> THEN 0 ELSE Head(q) + SumOf(Tail(q))

\* readDataRow was called on the DataRow received last, the transport working
ReadDataRowCalled ==
  /\ cur \in DataReaders
  /\ rd.last.m.tag = dataRowMsg
  /\ rd.last.e.io = "ok"
  /\ rd.last.row.st # ""

\* the scanner was called once per field of that DataRow, in index order,
\* with NULL for a length of -1 and L bytes for a length L; the bytes taken
\* are the count, the lengths and those bytes; the error returned is that of
\* the lowest failing column
ScannedEveryField ==
  LET lens == FieldLens(rd.last.m.fields, 2)
      row == rd.last.row
      failing == IF fr.model = "Discard" THEN {} ELSE rd.last.e.scanErr
  IN  /\ Len(lens) = ToInt16(rd.last.m.fields[1].n)
      /\ Len(row.scans) = Len(lens)
      /\ \A i \in 1..Len(row.scans) :
           /\ row.scans[i].colIdx = i - 1
           /\ row.scans[i].null <=> lens[i] = -1
           /\ row.scans[i].n = IF lens[i] = -1 THEN 0 ELSE lens[i]
      /\ row.used = 2 + SumOf([i \in 1..Len(lens) |->
                                4 + (IF lens[i] = -1 THEN 0 ELSE lens[i])])
      /\ row.err = IF failing = {} THEN NoErr
                   ELSE ScanError(CHOOSE i \in failing : \A j \in failing : i <= j)

SimpleQueryDataStep == cur = "readSimpleQueryData" /\ nread' = nread + 1

\* the step read a RowDescription and the creation of the model failed
ModelCreationFails ==
  /\ fr.model = "nil"
  /\ rd'.last.m.tag = rowDescriptionMsg
  /\ rd'.last.e.newModelErr
  /\ fr'.ret.st = "running"

\* the model was replaced by Discard; the creation error is the error to
\* return unless one was recorded before
DiscardReplacesModel ==
  /\ fr'.model = "Discard"
  /\ fr'.retErr = IF fr.retErr = NoErr THEN ModelError ELSE fr.retErr

\* the step consumed the whole DataRow and counted it, and the reader goes on
ConsumesAndCounts ==
  /\ rd'.last.used = rd'.last.size
  /\ fr'.rows = fr.rows + 1
  /\ fr'.ret.st = "running"

\* the step consumed ReadyForQuery and returned Discard with the kept error
ReturnsAtReadyForQuery ==
  /\ rd'.last.m.tag = readyForQueryMsg
  /\ rd'.last.used = rd'.last.size
  /\ fr'.ret.st = "returned"
  /\ fr'.ret.model = "Discard"
  /\ fr'.ret.err = fr.retErr

\* the step received its message whole, of a kind readSimpleQueryData
\* expects, a DataRow having no more fields than there are columns
DrainableStep ==
  /\ rd'.last.e.io = "ok"
  /\ rd'.last.m.tag \in {rowDescriptionMsg, dataRowMsg, commandCompleteMsg,
                         readyForQueryMsg, errorResponseMsg, noticeResponseMsg,
                         parameterStatusMsg}
  /\ rd'.last.m.tag = dataRowMsg =>
       ToInt16(rd'.last.m.fields[1].n) <= Len(cn.Columns)

NotificationGot(tags) ==
  /\ cur = "readNotification"
  /\ rd.last.e.io = "ok"
  /\ rd.last.m.tag \in tags

\* C21: readNotification returns the channel and the payload of the first
\* NotificationResponse, having consumed that message to its end and nothing
\* after it; a CommandComplete or a ReadyForQuery is consumed and the wait
\* goes on; an ErrorResponse ends the wait with that server error.
C21_ReadNotification ==
  /\ NotificationGot({notificationResponseMsg}) =>
       /\ Returned /\ fr.ret.err = NoErr
       /\ fr.ret.channel = rd.last.m.fields[2].s
       /\ fr.ret.payload = rd.last.m.fields[3].s
       /\ Aligned
  /\ NotificationGot({commandCompleteMsg, readyForQueryMsg}) =>
       fr.ret.st = "running" /\ Aligned
  /\ NotificationGot({errorResponseMsg}) =>
       /\ Returned /\ fr.ret.err = ExpectedError(rd.last.m)
       /\ fr.ret.channel = "" /\ fr.ret.payload = ""
  /\ (cur = "readNotification" /\ Returned /\ fr.ret.err = NoErr) =>
       NotificationGot({notificationResponseMsg})

\* C21 witness: readNotification returned a notification after it had
\* skipped a CommandComplete.
C21_Witness ==
  /\ cur = "readNotification" /\ Returned
  /\ fr.ret.channel = "chan" /\ fr.ret.payload = "hello"
  /\ rd.nDatC = 0 /\ nread >= 3

\* C22: in a COPY FROM cycle readCopyInResponse returns nil upon
\* CopyInResponse, and only then, having consumed the messages up to that one
\* and no more; readReadyForQuery, called after the caller wrote its
\* CopyData messages, CopyDone and Sync, on CommandComplete "COPY 2" and
\* ReadyForQuery returns the Result of that tag with a row count of 0, nil,
\* the ReadyForQuery being the last message consumed.
C22_CopyFromCycle ==
  /\ (cur = "readCopyInResponse" /\ rd.last.m.tag = copyInResponseMsg
        /\ rd.last.e.io = "ok") =>
       (Returned /\ fr.ret.err = NoErr /\ Aligned)
  /\ (cur = "readCopyInResponse" /\ Returned /\ fr.ret.err = NoErr) =>
       (rd.last.m.tag = copyInResponseMsg /\ Aligned)
  /\ (cur = "readReadyForQuery" /\ rd.lastC = CopyComplete /\ rd.firstE = NoMsg
        /\ rd.last.m.tag = readyForQueryMsg /\ rd.last.e.io = "ok") =>
       /\ wlog.op = "FlushWriter" /\ prev.err = "nil" /\ prev.atReady = FALSE
       /\ Returned /\ fr.ret.err = NoErr
       /\ fr.ret.res = [nil |-> FALSE, b |-> "COPY 2", rows |-> 0]
       /\ AtReady

\* C22 witness: two CopyData messages were written between the
\* CopyInResponse and the CommandComplete "COPY 2" and ReadyForQuery that
\* readReadyForQuery returned on.
C22_Witness ==
  /\ cur = "readReadyForQuery" /\ Returned /\ AtReady
  /\ fr.ret.res = [nil |-> FALSE, b |-> "COPY 2", rows |-> 0]
  /\ wlog.n = 5 /\ wlog.sent = 21
  /\ nread = 3

\* C23: startup returns nil only when an Authentication message of sub-code
\* 0 was consumed earlier in the handshake.
C23_StartupSuccessAfterAuthenticationOk ==
  (cur = "startup" /\ Returned /\ fr.ret.err = NoErr) => rd.authOK

\* C24: readSimpleQueryData and readExtQueryData never process a DataRow
\* with a nil model or with more fields than the column list naming them:
\* no DataRow makes them call a method of a nil model or index the column
\* list out of its range.
C24_DataRowNeverPanics ==
  (cur \in DataReaders /\ rd.last.m.tag = dataRowMsg /\ rd.last.e.io = "ok") =>
    fr.ret.st # "panic"

====
